---- MODULE Spec2Model ----
(***************************************************************************)
(* Model of the detection-and-alert pipeline of Iron Dome for Mosquitoes:  *)
(* PreventionManager (src/src/prevention/prevention_manager.py),           *)
(* CameraManager._get_phone_link_frames (src/src/camera/camera_manager.py) *)
(* and the worker threads of SystemManager (src/src/core/system_manager.py)*)
(***************************************************************************)
EXTENDS Integers, Sequences, FiniteSets, TLC

(* ------------------------------ bounds --------------------------------- *)
\* largest alert_threshold drawn for the configuration
MaxThreshold == 3
\* largest cooldown_period (seconds) drawn for the configuration; the
\* configurations have no cooldown, the shortest one or the longest one
MaxCooldown == 5
\* the wall clock runs over 0..MaxTime
MaxTime == 8
\* process_detection is called at most MaxCalls times in a run
MaxCalls == 5
\* a detection event carries 1..MaxDetections detections
MaxDetections == 2
\* the clock advances by at most MaxDelay between the datetime.now() reads of
\* lines 92 and 111 of one call
MaxDelay == 1
\* get_alert_history is called with limit in 0..MaxLimit
MaxLimit == 2

\* threads calling process_detection concurrently: the detection workers
\* started by run() (main.py:92) and by /api/control/start
NumCallers == 2
\* reset_detection_count is called at most MaxResets times beside the workers
MaxResets == 1
\* the concurrent callers make at most MaxRaceCalls calls in all
MaxRaceCalls == 3
\* while they run, the clock runs over 0..MaxRaceTime
MaxRaceTime == 2
\* image files that can appear in the capture folder
MaxFiles == 2
\* the configured methods list holds at most MaxMethods entries
MaxMethods == 2
\* process_detection is called at most MaxMethodCalls times while the
\* execution of the methods is followed
MaxMethodCalls == 2
\* the prevention worker's loop body is followed for MaxIterations iterations
MaxIterations == 3
\* MonitoringManager.log_error is called at most MaxErrors times
MaxErrors == 2
\* the tables of the database hold at most MaxRows rows in total
MaxRows == 2
\* cleanup_old_data is called with a retention of 0..MaxDays time units
MaxDays == 1
\* at most MaxCleanups calls of cleanup_old_data follow a write
MaxCleanups == 2
\* _main_loop is followed for MaxPasses iterations
MaxPasses == 2
\* SystemManager.run is called at most MaxRuns times
MaxRuns == 2

(* ------------------------------ state ---------------------------------- *)
VARIABLES
    \* PreventionManager fields (prevention_manager.py:19-28)
    enabled,            \* self.enabled
    alert_threshold,    \* self.alert_threshold
    cooldown_period,    \* self.cooldown_period
    detection_count,    \* self.detection_count
    last_alert_time,    \* self.last_alert_time: <<>> is None, <<t>> a datetime
    alert_history,      \* self.alert_history
    running,            \* self.running
    \* the wall clock read by datetime.now()
    now,
    \* observation of the latest public call: its name, inputs, the fields
    \* before it and its return value
    last,
    \* number of process_detection calls made so far
    ncalls,
    \* the scenario monitor: the outcome of every call so far, as long as the
    \* calls made are exactly a prefix of ScenarioTimes, one detection each
    scenario,
    \* number of events an enabled manager received since the last alert or
    \* reset_detection_count
    received,
    \* concurrent callers of process_detection: the line each one is at, the
    \* value it loaded for 'self.detection_count += 1', the alert time the
    \* latest alert overwrote, the reset_detection_count calls made
    c_pc, c_tmp, prev_alert, resets,
    \* SystemManager.running (system_manager.py:25, 112, 302)
    sm_running,
    \* the capture folder: the image files in it, and those cv2.imread decodes
    folder, decodable,
    \* CameraManager.processed_files (camera_manager.py:23)
    processed_files,
    \* the camera worker and the detection worker: where each one is, and the
    \* locals image_files, image_file and frames of its get_frames call
    w_pc, image_files, image_file, frames,
    \* number of Detector.detect calls per file path
    detected,
    \* the file paths for which Detector.detect returned a non-empty list
    nonempty,
    \* MonitoringManager.detection_history (monitoring_manager.py:30) and the
    \* rows of the tables detections and alerts of the database
    \* (database_manager.py:166, 239), each as the file paths or the number
    \* of the events recorded
    detection_history, db_detections, db_alerts,
    \* PreventionManager.methods (prevention_manager.py:20)
    methods,
    \* one process_detection call followed through the loop of lines 125-126:
    \* the index of the method to execute next (0 outside the loop), the
    \* methods executed, the call's return value, and the alert state as
    \* line 122 left it
    m_pc, executed, m_ret, m_snap,
    \* the threads of the running system: where each one is
    t_pc,
    \* MonitoringManager.running and WebInterface.running
    mon_running, web_running,
    \* SystemManager.shutdown: where its caller is, the threads a join of
    \* which timed out, and the iterations of the prevention worker whose
    \* body raised
    sd_pc, sd_timeouts, prevention_failures,
    \* startup (main.py:62-92): the settings in the configuration file, the
    \* configuration ConfigLoader.load returned, the position of main, the
    \* worker threads started
    file_config, config, st_pc, started,
    \* DatabaseManager.lock (database_manager.py:28): its holder, and where
    \* each thread that calls a locking method of the database is
    db_lock, lk_pc,
    \* the fan-out of the detection worker: the file paths whose event was
    \* passed to web.broadcast_detection, those whose database.log_detection
    \* returned False, and the alert state as process_detection left it
    broadcasts, db_failed, fan_snap,
    \* MonitoringManager.system_stats['error_count'] and the number of
    \* Detector.detect calls that failed
    error_count, detect_failures,
    \* MonitoringManager.system_stats (the sampled resources) and
    \* health_status, where the monitoring worker is in its loop body, and
    \* whether its latest sample failed
    system_stats, health_status, mw_pc, sample_failed,
    \* the timestamps of the rows of each table of the database, and the
    \* cleanup_old_data calls made since the last write: retention, time,
    \* outcome, return value and the tables left
    tables, cleanup_ret,
    \* whether the connection of the DatabaseManager is open
    \* (database_manager.py:63, 524)
    db_open,
    \* the list _cleanup_old_data has built from detection_history and not
    \* yet assigned (monitoring_manager.py:170-173)
    mc_tmp,
    \* SystemManager.run: where each caller of run() is in it, the number of
    \* live worker threads of each kind, and the number of run() calls made
    run_pc, live, runs,
    \* SystemManager._main_loop: where the loop is in its body, the index of
    \* the component the health pass is at, the components whose health the
    \* pass has evaluated, and the number of iterations completed
    ml_pc, ml_i, health_checked, ml_iterations

pmVars == <<enabled, alert_threshold, cooldown_period, detection_count,
            last_alert_time, alert_history, running>>
obsVars == <<last, ncalls, scenario, received>>
raceVars == <<c_pc, c_tmp, prev_alert, resets>>
pipeVars == <<sm_running, folder, decodable, processed_files, w_pc,
              image_files, image_file, frames, detected>>
logVars == <<nonempty, detection_history, db_detections, db_alerts>>
methVars == <<methods, m_pc, executed, m_ret, m_snap>>
sysVars == <<t_pc, mon_running, web_running, sd_pc, sd_timeouts,
             prevention_failures>>
cfgVars == <<file_config, config, st_pc, started>>
extVars == <<db_lock, lk_pc, broadcasts, db_failed, fan_snap, error_count,
             detect_failures, system_stats, health_status, mw_pc,
             sample_failed, tables, cleanup_ret, db_open, mc_tmp, run_pc,
             live, runs, ml_pc, ml_i, health_checked, ml_iterations>>
runVars == <<run_pc, live, runs>>
loopVars == <<ml_pc, ml_i, health_checked, ml_iterations>>
lockVars == <<db_lock, lk_pc>>
fanVars == <<broadcasts, db_failed, fan_snap>>
errVars == <<error_count, detect_failures>>
monVars == <<system_stats, health_status, mw_pc, sample_failed, mc_tmp>>
cleanVars == <<tables, cleanup_ret>>
sideVars == <<methVars, sysVars, cfgVars, extVars>>
thrVars == <<raceVars, pipeVars, logVars, sideVars>>
vars == <<pmVars, now, obsVars, thrVars>>

Callers == 1..NumCallers
Workers == {"camera", "detection"}
Files == 1..MaxFiles
\* no file: the value of image_file outside the loop body
NoFile == "none"

(* --------------------------- pure helpers ------------------------------ *)
\* Python's seq[-limit:] for limit >= 0: -0 is 0, so limit = 0 is seq[0:]
PySliceLast(seq, limit) ==
    IF limit = 0 \/ limit >= Len(seq) THEN seq
    ELSE SubSeq(seq, Len(seq) - limit + 1, Len(seq))

\* the cooldown periods drawn for the configuration
Cooldowns == {0, 1, MaxCooldown}

\* the arrival times of the five events of the scenario
ScenarioTimes == <<0, 1, 2, 3, 8>>

(* ------------------------ PreventionManager ---------------------------- *)
\* a faulty variant of Increment: the count grows by the event's detections
IncrementK(count, k) == count + k
\* process_detection, line 75: self.detection_count += 1 (k = len(detections)
\* of the event; the code does not read it)
Increment(count, k) == count + 1

\* faulty variants of ShouldTriggerAlert: without the cooldown test, and with
\* a strict threshold test
ShouldTriggerNoCooldown(count, lastAlert, current_time, threshold, cooldown) ==
    count >= threshold
ShouldTriggerStrict(count, lastAlert, current_time, threshold, cooldown) ==
    IF lastAlert # <<>> /\ current_time - lastAlert[1] < cooldown
    THEN FALSE
    ELSE count > threshold
\* _should_trigger_alert, lines 90-103
ShouldTriggerAlert(count, lastAlert, current_time, threshold, cooldown) ==
    IF lastAlert # <<>> /\ current_time - lastAlert[1] < cooldown
    THEN FALSE
    ELSE count >= threshold

\* a faulty variant of CountAfterFire: the count survives the alert
CountKept(count) == count
\* _trigger_prevention_actions, line 112: self.detection_count = 0
CountAfterFire(count) == 0

\* _trigger_prevention_actions, lines 115-120: the record is built after
\* line 112, so 'detection_count' reads the field as it is after the reset
\* (the record's timestamp, payload and method list are left out)
AlertRecord(countNow) ==
    [detection_count |-> countNow]

\* the observation of a call that is not process_detection
Observe(op, ret) ==
    [op |-> op, t |-> now, k |-> 0, pre |-> detection_count,
     afterInc |-> detection_count, preLast |-> last_alert_time,
     preHist |-> Len(alert_history), ret |-> ret]

\* the scenario monitor after a process_detection call at time t carrying k
\* detections, which returned ret and left the count at c
ScenarioStep(t, k, ret, c) ==
    IF scenario.on /\ Len(scenario.calls) < Len(ScenarioTimes)
    THEN IF t = ScenarioTimes[Len(scenario.calls) + 1] /\ k = 1 /\ enabled
         THEN [scenario EXCEPT !.calls = Append(@, [fired |-> ret, count |-> c])]
         ELSE [scenario EXCEPT !.on = FALSE]
    ELSE scenario

\* PreventionManager.__init__, lines 16-28, for a configuration (enabled,
\* alert_threshold, cooldown_period), with the observers and the workers of
\* the sections below at their start
InitManagers ==
    /\ enabled \in BOOLEAN
    /\ alert_threshold \in 1..MaxThreshold
    /\ cooldown_period \in Cooldowns
    /\ detection_count = 0
    /\ last_alert_time = <<>>
    /\ alert_history = <<>>
    /\ running = FALSE
    /\ now = 0
    /\ last = Observe("__init__", "None")
    /\ ncalls = 0
    /\ scenario = [on |-> TRUE, calls |-> <<>>]
    /\ received = 0
    /\ c_pc = [c \in Callers |-> "idle"]
    /\ c_tmp = [c \in Callers |-> 0]
    /\ prev_alert = <<>>
    /\ resets = 0
    /\ sm_running = TRUE
    /\ folder = {}
    /\ decodable = {}
    /\ processed_files = {}
    /\ w_pc = [w \in Workers |-> "loop"]
    /\ image_files = [w \in Workers |-> {}]
    /\ image_file = [w \in Workers |-> NoFile]
    /\ frames = [w \in Workers |-> <<>>]
    /\ detected = [f \in Files |-> 0]

\* MonitoringManager.__init__ (monitoring_manager.py:30) and the tables as
\* DatabaseManager._create_tables leaves them: nothing recorded
InitLog ==
    /\ nonempty = {}
    /\ detection_history = {}
    /\ db_detections = {}
    /\ db_alerts = 0

\* prevention_manager.py:20: the default of config.get('methods', ...)
DefaultMethods == <<"alert", "log">>
\* no process_detection call is being followed
NoMethodCall ==
    /\ m_pc = 0
    /\ executed = <<>>
    /\ m_ret = "none"
    /\ m_snap = <<>>

\* the threads run() and the components start: the four workers of
\* SystemManager (system_manager.py:150, 203, 224, 250), the web server
\* thread (web_interface.py:214) and the monitoring thread
\* (monitoring_manager.py:83)
Threads == {"camera", "detection", "prevention", "web", "server", "monitoring"}
\* SystemManager.__init__, MonitoringManager.__init__ (line 36) and
\* WebInterface.__init__ (line 32): no thread runs, shutdown is not called
InitSystem ==
    /\ t_pc = [t \in Threads |-> "new"]
    /\ mon_running = FALSE
    /\ web_running = FALSE
    /\ sd_pc = "idle"
    /\ sd_timeouts = {}
    /\ prevention_failures = 0

\* ConfigLoader._load_defaults, config_loader.py:29-61, the settings the
\* startup validation and PreventionManager read (thresholds and the
\* interval in tenths: 0.3, 0.5, 1.0)
DefaultConfig ==
    [confidence_threshold |-> 3, iou_threshold |-> 5,
     detection_interval |-> 10, alert_threshold |-> 3]
\* main has not started: the loader holds its defaults
InitConfig ==
    /\ file_config = DefaultConfig
    /\ config = DefaultConfig
    /\ st_pc = "start"
    /\ started = {}

\* the threads that call a method of the database that takes its lock: the
\* main thread (_check_system_health -> database.check_health,
\* system_manager.py:276) and a request thread of the web server
\* (/api/status -> SystemManager.get_status -> database.get_status,
\* web_interface.py:77); the detection worker is followed in its own steps
LockUsers == {"main", "status"}
\* the tables of the database (database_manager.py:84-140)
Tables == {"detections", "system_events", "performance_metrics", "alerts"}
\* the threads that call SystemManager.run: main (main.py:92) and a request
\* thread of the web server serving POST /api/control/start
\* (web_interface.py:109-118)
RunCallers == {"main", "api"}
\* the worker threads run() starts (system_manager.py:116-122)
WorkerKinds == {"camera", "detection", "prevention"}
\* the system as main's run() has it running: the three workers started once,
\* main in _main_loop, no request being served
InitRun ==
    /\ run_pc = [c \in RunCallers |-> IF c = "main" THEN "main_loop" ELSE "idle"]
    /\ live = [k \in WorkerKinds |-> 1]
    /\ runs = 1
\* _main_loop at its while test before the first health pass
InitLoop ==
    /\ ml_pc = "health"
    /\ ml_i = 1
    /\ health_checked = {}
    /\ ml_iterations = 0

\* DatabaseManager.__init__ and _create_tables, MonitoringManager.__init__
\* (line 32) and _initialize_system_stats (lines 68-78): the lock free, the
\* tables empty, nothing sampled or counted
InitExt ==
    /\ db_lock = "free"
    /\ lk_pc = [t \in LockUsers |-> "idle"]
    /\ broadcasts = {}
    /\ db_failed = {}
    /\ fan_snap = <<>>
    /\ error_count = 0
    /\ detect_failures = 0
    /\ system_stats = [cpu_usage |-> 0, memory_usage |-> 0, disk_usage |-> 0,
                       uptime |-> 0]
    /\ health_status = "unknown"
    /\ mw_pc = "update"
    /\ sample_failed = FALSE
    /\ tables = [tb \in Tables |-> {}]
    /\ cleanup_ret = <<>>
    /\ db_open = TRUE
    /\ mc_tmp = {}
    /\ InitRun
    /\ InitLoop

Init ==
    /\ InitManagers
    /\ InitLog
    /\ methods = DefaultMethods
    /\ NoMethodCall
    /\ InitSystem
    /\ InitConfig
    /\ InitExt

\* time passes between two calls
Tick ==
    /\ now < MaxTime
    /\ now' = now + 1
    /\ last' = [Observe("tick", "None") EXCEPT !.t = now + 1]
    /\ UNCHANGED <<pmVars, ncalls, scenario, received, thrVars>>

\* a faulty variant of InitializeCount: initialize clears the counter too
InitializeClearsCount(count) == 0
\* initialize, lines 33-48, assigns alert_history only: the count is kept
InitializeCount(count) == count
\* initialize, lines 33-48 (_validate_config only logs for a list of methods)
initialize ==
    /\ alert_history' = <<>>
    /\ detection_count' = InitializeCount(detection_count)
    /\ last' = Observe("initialize", "None")
    /\ scenario' = [scenario EXCEPT !.on = FALSE]
    /\ UNCHANGED <<enabled, alert_threshold, cooldown_period, last_alert_time,
                   running, now, ncalls, received, thrVars>>

\* process_detection, lines 60-88, with _should_trigger_alert and
\* _trigger_prevention_actions, run by a single caller for an event of k
\* detections; the clock is read at line 92 (now) and at line 111 (now + d1).
\* WillFire is the value line 81 tests, and the value the call returns.
WillFire(k) ==
    /\ enabled
    /\ ShouldTriggerAlert(Increment(detection_count, k), last_alert_time, now,
                          alert_threshold, cooldown_period)
PMCall(k, d1) ==
    /\ IF ~enabled
       THEN /\ d1 = 0
            /\ UNCHANGED <<detection_count, last_alert_time, alert_history, now>>
       ELSE IF WillFire(k)
       THEN /\ now + d1 <= MaxTime
            /\ last_alert_time' = <<now + d1>>
            /\ detection_count' = CountAfterFire(Increment(detection_count, k))
            /\ alert_history' =
                   Append(alert_history, AlertRecord(detection_count'))
            /\ now' = now + d1
       ELSE /\ d1 = 0
            /\ detection_count' = Increment(detection_count, k)
            /\ UNCHANGED <<last_alert_time, alert_history, now>>
    /\ UNCHANGED <<enabled, alert_threshold, cooldown_period, running>>

\* the call with its observation: the time of the call, the event size, the
\* fields before it, the count after line 75 and the return value
ProcessDetection(k, d1) ==
    /\ PMCall(k, d1)
    /\ ncalls' = ncalls + 1
    /\ last' = [op |-> "process_detection", t |-> now, k |-> k,
                pre |-> detection_count,
                afterInc |-> IF enabled THEN Increment(detection_count, k)
                                        ELSE detection_count,
                preLast |-> last_alert_time,
                preHist |-> Len(alert_history),
                ret |-> WillFire(k)]
    /\ scenario' = ScenarioStep(now, k, WillFire(k), detection_count')
    /\ received' = IF ~enabled THEN received
                   ELSE IF WillFire(k) THEN 0 ELSE received + 1

\* a process_detection call from a single caller
process_detection ==
    /\ ncalls < MaxCalls
    /\ \E k \in 1..MaxDetections, d1 \in 0..MaxDelay : ProcessDetection(k, d1)
    /\ UNCHANGED thrVars

\* reset_detection_count, lines 196-199
reset_detection_count ==
    /\ detection_count' = 0
    /\ last' = Observe("reset_detection_count", "None")
    /\ scenario' = [scenario EXCEPT !.on = FALSE]
    /\ received' = 0
    /\ UNCHANGED <<enabled, alert_threshold, cooldown_period, last_alert_time,
                   alert_history, running, now, ncalls, thrVars>>

\* get_alert_history, lines 201-203
get_alert_history ==
    /\ \E limit \in 0..MaxLimit :
        last' = [Observe("get_alert_history",
                         IF alert_history # <<>>
                         THEN PySliceLast(alert_history, limit) ELSE <<>>)
                 EXCEPT !.k = limit]
    /\ UNCHANGED <<pmVars, now, ncalls, scenario, received, thrVars>>

\* get_status, lines 205-216
get_status ==
    /\ last' = Observe("get_status",
                       [enabled |-> enabled,
                        alert_threshold |-> alert_threshold,
                        cooldown_period |-> cooldown_period,
                        current_detection_count |-> detection_count,
                        last_alert_time |-> last_alert_time,
                        alert_history_count |-> Len(alert_history),
                        running |-> running])
    /\ UNCHANGED <<pmVars, now, ncalls, scenario, received, thrVars>>

\* check_health, lines 218-225
check_health ==
    /\ last' = Observe("check_health",
                       [status |-> IF enabled THEN "healthy" ELSE "disabled",
                        last_alert |-> last_alert_time,
                        detection_count |-> detection_count,
                        alert_history_size |-> Len(alert_history)])
    /\ UNCHANGED <<pmVars, now, ncalls, scenario, received, thrVars>>

\* shutdown, lines 227-231
shutdown ==
    /\ running' = FALSE
    /\ last' = Observe("shutdown", "None")
    /\ UNCHANGED <<enabled, alert_threshold, cooldown_period, detection_count,
                   last_alert_time, alert_history, now, ncalls, scenario,
                   received, thrVars>>

Next ==
    \/ Tick
    \/ initialize
    \/ process_detection
    \/ reset_detection_count
    \/ get_alert_history
    \/ get_status
    \/ check_health
    \/ shutdown

Spec == Init /\ [][Next]_vars

(* ------------- process_detection called from several threads ---------- *)
\* PreventionManager holds no lock: each caller runs lines 71-128 in steps of
\* its own, and another thread may run between any two of them.
UNCHANGED_config == UNCHANGED <<enabled, alert_threshold, cooldown_period, running>>

\* time passes while the callers run
race_tick ==
    /\ now < MaxRaceTime
    /\ now' = now + 1
    /\ UNCHANGED <<pmVars, obsVars, thrVars>>

\* a worker enters process_detection; line 71 returns False when disabled
race_call(c) ==
    /\ c_pc[c] = "idle"
    /\ ncalls < MaxRaceCalls
    /\ ncalls' = ncalls + 1
    /\ c_pc' = [c_pc EXCEPT ![c] = IF enabled THEN "load" ELSE "idle"]
    /\ UNCHANGED <<pmVars, now, last, scenario, received, c_tmp, prev_alert,
                   resets, pipeVars, logVars,
                   sideVars>>

\* line 75, self.detection_count += 1: the field is read ...
race_load(c) ==
    /\ c_pc[c] = "load"
    /\ c_tmp' = [c_tmp EXCEPT ![c] = detection_count]
    /\ c_pc' = [c_pc EXCEPT ![c] = "store"]
    /\ UNCHANGED <<pmVars, now, obsVars, prev_alert, resets, pipeVars, logVars,
                   sideVars>>

\* ... and the sum is written back
race_store(c) ==
    /\ c_pc[c] = "store"
    /\ detection_count' = Increment(c_tmp[c], 1)
    /\ c_pc' = [c_pc EXCEPT ![c] = "check"]
    /\ UNCHANGED <<last_alert_time, alert_history, now, obsVars, c_tmp,
                   prev_alert, resets, pipeVars, logVars,
                   sideVars>>
    /\ UNCHANGED_config

\* line 81: _should_trigger_alert; False returns from process_detection
race_check(c) ==
    /\ c_pc[c] = "check"
    /\ c_pc' = [c_pc EXCEPT ![c] =
                   IF ShouldTriggerAlert(detection_count, last_alert_time, now,
                                         alert_threshold, cooldown_period)
                   THEN "l111" ELSE "idle"]
    /\ UNCHANGED <<pmVars, now, obsVars, c_tmp, prev_alert, resets, pipeVars, logVars,
                   sideVars>>

\* line 111: self.last_alert_time = datetime.now()
race_l111(c) ==
    /\ c_pc[c] = "l111"
    /\ prev_alert' = last_alert_time
    /\ last_alert_time' = <<now>>
    /\ c_pc' = [c_pc EXCEPT ![c] = "l112"]
    /\ UNCHANGED <<detection_count, alert_history, now, obsVars, c_tmp,
                   resets, pipeVars, logVars,
                   sideVars>>
    /\ UNCHANGED_config

\* line 112: self.detection_count = 0
race_l112(c) ==
    /\ c_pc[c] = "l112"
    /\ detection_count' = CountAfterFire(detection_count)
    /\ c_pc' = [c_pc EXCEPT ![c] = "l115"]
    /\ UNCHANGED <<last_alert_time, alert_history, now, obsVars, c_tmp,
                   prev_alert, resets, pipeVars, logVars,
                   sideVars>>
    /\ UNCHANGED_config

\* lines 115-128: the record is appended and True returned
race_l115(c) ==
    /\ c_pc[c] = "l115"
    /\ alert_history' = Append(alert_history, AlertRecord(detection_count))
    /\ c_pc' = [c_pc EXCEPT ![c] = "idle"]
    /\ UNCHANGED <<detection_count, last_alert_time, now, obsVars, c_tmp,
                   prev_alert, resets, pipeVars, logVars,
                   sideVars>>
    /\ UNCHANGED_config

\* reset_detection_count (line 198) called from another thread
race_reset ==
    /\ resets < MaxResets
    /\ resets' = resets + 1
    /\ detection_count' = 0
    /\ UNCHANGED <<last_alert_time, alert_history, now, obsVars, c_pc, c_tmp,
                   prev_alert, pipeVars, logVars,
                   sideVars>>
    /\ UNCHANGED_config

Call == \E c \in Callers : race_call(c)
Load == \E c \in Callers : race_load(c)
Store == \E c \in Callers : race_store(c)
Check == \E c \in Callers : race_check(c)
SetAlertTime == \E c \in Callers : race_l111(c)
ResetCount == \E c \in Callers : race_l112(c)
AppendRecord == \E c \in Callers : race_l115(c)

NextRace ==
    \/ race_tick
    \/ Call
    \/ Load
    \/ Store
    \/ Check
    \/ SetAlertTime
    \/ ResetCount
    \/ AppendRecord
    \/ race_reset

SpecRace == Init /\ [][NextRace]_vars

(* --------------- the camera worker and the detection worker ----------- *)
\* both workers call CameraManager.get_frames on the one CameraManager
\* (system_manager.py:143 and :160); nothing serialises the two calls.
UNCHANGED_pm == UNCHANGED <<pmVars, now, obsVars, raceVars, logVars, sideVars>>

\* a phone photo arrives in the capture folder; cv2.imread can decode it or not
new_photo ==
    /\ sm_running
    /\ \E f \in Files \ folder, dec \in BOOLEAN :
        /\ folder' = folder \cup {f}
        /\ decodable' = IF dec THEN decodable \cup {f} ELSE decodable
    /\ UNCHANGED <<sm_running, processed_files, w_pc, image_files, image_file,
                   frames, detected>>
    /\ UNCHANGED_pm

\* SystemManager.shutdown, line 302: self.running = False
sm_shutdown ==
    /\ sm_running
    /\ sm_running' = FALSE
    /\ UNCHANGED <<folder, decodable, processed_files, w_pc, image_files,
                   image_file, frames, detected>>
    /\ UNCHANGED_pm

\* a worker's 'while self.running' (lines 141, 157) ends its loop
worker_exit(w) ==
    /\ w_pc[w] = "loop"
    /\ ~sm_running
    /\ w_pc' = [w_pc EXCEPT ![w] = "exited"]
    /\ UNCHANGED <<sm_running, folder, decodable, processed_files, image_files,
                   image_file, frames, detected>>
    /\ UNCHANGED_pm

\* get_frames -> _get_phone_link_frames, camera_manager.py:152-161: frames = []
\* and the glob of the capture folder
get_frames_glob(w) ==
    /\ w_pc[w] = "loop"
    /\ sm_running
    /\ image_files' = [image_files EXCEPT ![w] = folder]
    /\ frames' = [frames EXCEPT ![w] = <<>>]
    /\ w_pc' = [w_pc EXCEPT ![w] = "scan"]
    /\ UNCHANGED <<sm_running, folder, decodable, processed_files, image_file,
                   detected>>
    /\ UNCHANGED_pm

\* a faulty variant of NotProcessed: the dedup test is missing
NeverProcessed(f, processed) == TRUE
\* camera_manager.py:164: if image_file not in self.processed_files
NotProcessed(f, processed) == f \notin processed

\* camera_manager.py:163-164: the next file of the glob and the dedup test
get_frames_next(w) ==
    /\ w_pc[w] = "scan"
    /\ \E f \in image_files[w] :
        /\ image_files' = [image_files EXCEPT ![w] = @ \ {f}]
        /\ IF NotProcessed(f, processed_files)
           THEN /\ image_file' = [image_file EXCEPT ![w] = f]
                /\ w_pc' = [w_pc EXCEPT ![w] = "read"]
           ELSE UNCHANGED <<image_file, w_pc>>
    /\ UNCHANGED <<sm_running, folder, decodable, processed_files, frames,
                   detected>>
    /\ UNCHANGED_pm

\* camera_manager.py:167-185: cv2.imread; a decoded image is appended to
\* frames and its path added to processed_files
get_frames_read(w) ==
    /\ w_pc[w] = "read"
    /\ LET f == image_file[w] IN
        IF f \in decodable
        THEN /\ frames' = [frames EXCEPT ![w] = Append(@, f)]
             /\ processed_files' = processed_files \cup {f}
        ELSE UNCHANGED <<frames, processed_files>>
    /\ image_file' = [image_file EXCEPT ![w] = NoFile]
    /\ w_pc' = [w_pc EXCEPT ![w] = "scan"]
    /\ UNCHANGED <<sm_running, folder, decodable, image_files, detected>>
    /\ UNCHANGED_pm

\* a faulty variant of CameraAfterPoll: the exception of the hand-off leaves
\* the loop of the worker
CameraDies(raised) == IF raised THEN "exited" ELSE "loop"
\* camera_worker, system_manager.py:141-148: the try of lines 141-147 is
\* inside the while loop, so after a poll, whether or not its hand-off raised,
\* the worker sleeps (line 148) and tests self.running again
CameraAfterPoll(raised) == "loop"

\* camera_worker, system_manager.py:143-148: get_frames has returned; with
\* frames, monitoring.process_frames(frames) is called, a method that
\* MonitoringManager does not define: the AttributeError is caught at line 146
\* and the frames go out of scope
camera_handoff ==
    /\ w_pc["camera"] = "scan"
    /\ image_files["camera"] = {}
    /\ frames' = [frames EXCEPT !["camera"] = <<>>]
    /\ w_pc' = [w_pc EXCEPT !["camera"] = CameraAfterPoll(frames["camera"] # <<>>)]
    /\ UNCHANGED <<sm_running, folder, decodable, processed_files, image_files,
                   image_file, detected>>
    /\ UNCHANGED_pm

\* detection_worker, system_manager.py:160-162: get_frames has returned
detection_frames ==
    /\ w_pc["detection"] = "scan"
    /\ image_files["detection"] = {}
    /\ w_pc' = [w_pc EXCEPT !["detection"] = "detect"]
    /\ UNCHANGED <<sm_running, folder, decodable, processed_files, image_files,
                   image_file, frames, detected>>
    /\ UNCHANGED_pm

\* a faulty variant of HasDetections: the event of every frame is processed
AlwaysProcessed(k) == TRUE
\* detection_worker, line 166: if detections
HasDetections(k) == k > 0

\* detection_worker, lines 162-185: Detector.detect on the next frame, which
\* returns k detections. With detections the event is built and passed to
\* prevention.process_detection, monitoring.log_detection (log_detections at
\* its default True) and database.log_detection, whose insert fails and is
\* caught once shutdown has closed the connection (database_manager.py:525,
\* 181-183); no other method of the database is called. Without detections
\* the frame is left. (The clock is not advanced while the workers run.)
detection_detect ==
    /\ w_pc["detection"] = "detect"
    /\ frames["detection"] # <<>>
    /\ LET f == Head(frames["detection"]) IN
        /\ detected' = [detected EXCEPT ![f] = @ + 1]
        /\ \E k \in 0..MaxDetections :
            /\ nonempty' = IF k > 0 THEN nonempty \cup {f} ELSE nonempty
            /\ IF HasDetections(k)
               THEN /\ PMCall(k, 0)
                    /\ detection_history' = detection_history \cup {f}
                    /\ \E stored \in (IF sm_running THEN {TRUE} ELSE BOOLEAN) :
                        db_detections' = IF stored THEN db_detections \cup {f}
                                         ELSE db_detections
               ELSE UNCHANGED <<pmVars, now, detection_history, db_detections>>
    /\ frames' = [frames EXCEPT !["detection"] = Tail(@)]
    /\ UNCHANGED <<db_alerts, obsVars, raceVars, sideVars, sm_running, folder,
                   decodable, processed_files, w_pc, image_files, image_file>>

\* detection_worker, lines 162 and 201: the frames are done, sleep and loop
detection_sleep ==
    /\ w_pc["detection"] = "detect"
    /\ frames["detection"] = <<>>
    /\ w_pc' = [w_pc EXCEPT !["detection"] = "loop"]
    /\ UNCHANGED <<sm_running, folder, decodable, processed_files, image_files,
                   image_file, frames, detected>>
    /\ UNCHANGED_pm

Exit == \E w \in Workers : worker_exit(w)
Glob == \E w \in Workers : get_frames_glob(w)
NextFile == \E w \in Workers : get_frames_next(w)
ReadFile == \E w \in Workers : get_frames_read(w)

NextPipeline ==
    \/ new_photo
    \/ sm_shutdown
    \/ Exit
    \/ Glob
    \/ NextFile
    \/ ReadFile
    \/ camera_handoff
    \/ detection_frames
    \/ detection_detect
    \/ detection_sleep

\* the workers are started on a manager with no cooldown or the longest one,
\* and the threshold 1 or the largest one
InitPipeline ==
    /\ Init
    /\ cooldown_period \in {0, MaxCooldown}
    /\ alert_threshold \in {1, MaxThreshold}

SpecPipeline == InitPipeline /\ [][NextPipeline]_vars

(* ------------- the fan-out of one detection, step by step ------------- *)
\* detection_worker (system_manager.py:156-201) followed statement by
\* statement through one poll: detect, process_detection and
\* monitoring.log_detection, database.log_detection under DatabaseManager.lock,
\* web.broadcast_detection; the lock is also taken by the main thread's health
\* check and by a status request of the web server.
UNCHANGED_fan ==
    UNCHANGED <<obsVars, raceVars, methVars, sysVars, cfgVars, monVars,
                cleanVars, runVars, loopVars, db_open, folder, decodable,
                image_files, image_file, nonempty, db_alerts>>

\* the fields of the PreventionManager an alert decision reads and writes
AlertState == <<detection_count, last_alert_time, alert_history>>

\* the orders in which glob can list the files of a set
Orders(S) ==
    {q \in [1..Cardinality(S) -> S] :
        \A i, j \in 1..Cardinality(S) : q[i] = q[j] => i = j}

\* detection_worker, line 160: one whole call of get_frames, not interleaved
\* with another caller: every decodable file not yet in processed_files is
\* returned and added to the set (camera_manager.py:163-185)
fan_poll ==
    /\ w_pc["detection"] = "loop"
    /\ sm_running
    /\ LET new == (folder \cap decodable) \ processed_files IN
        /\ frames' \in {[frames EXCEPT !["detection"] = q] : q \in Orders(new)}
        /\ processed_files' = processed_files \cup new
    /\ w_pc' = [w_pc EXCEPT !["detection"] = "detect"]
    /\ UNCHANGED <<pmVars, now, detected, detection_history, db_detections,
                   sm_running, lockVars, fanVars, errVars>>
    /\ UNCHANGED_fan

\* detection_worker, lines 162-178: the next frame of the poll is passed to
\* Detector.detect, which catches every exception of its own and returns []
\* (mosquito_detector.py:60-115) without calling monitoring.log_error; with
\* detections the event goes to process_detection and monitoring.log_detection
fan_detect ==
    /\ w_pc["detection"] = "detect"
    /\ frames["detection"] # <<>>
    /\ LET f == Head(frames["detection"]) IN
        /\ detected' = [detected EXCEPT ![f] = @ + 1]
        /\ \E failed \in BOOLEAN, n \in 0..MaxDetections :
            LET k == IF failed THEN 0 ELSE n IN
            /\ failed => n = 0
            /\ detect_failures' =
                   IF failed THEN detect_failures + 1 ELSE detect_failures
            /\ IF HasDetections(k)
               THEN /\ PMCall(k, 0)
                    /\ detection_history' = detection_history \cup {f}
                    /\ fan_snap' = AlertState'
                    /\ w_pc' = [w_pc EXCEPT !["detection"] = "lock"]
                    /\ UNCHANGED frames
               ELSE /\ frames' = [frames EXCEPT !["detection"] = Tail(@)]
                    /\ UNCHANGED <<pmVars, now, detection_history, fan_snap,
                                   w_pc>>
    /\ UNCHANGED <<processed_files, db_detections, sm_running, lockVars,
                   broadcasts, db_failed, error_count>>
    /\ UNCHANGED_fan

\* database.log_detection, database_manager.py:163: with self.lock
fan_acquire ==
    /\ w_pc["detection"] = "lock"
    /\ db_lock = "free"
    /\ db_lock' = "detection"
    /\ w_pc' = [w_pc EXCEPT !["detection"] = "store"]
    /\ UNCHANGED <<pmVars, now, processed_files, frames, detected,
                   detection_history, db_detections, sm_running, lk_pc,
                   fanVars, errVars>>
    /\ UNCHANGED_fan

\* a faulty variant of AfterStore: the failure of the write is raised to the
\* worker, which abandons the event and the poll
RaiseOnFailure(ok) == IF ok THEN "broadcast" ELSE "loop"
\* database.log_detection, lines 162-183: True after the commit, and False
\* from the except of line 181; either way the worker goes on to line 184
AfterStore(ok) == "broadcast"

\* database.log_detection, lines 164-183: the INSERT and the commit under the
\* lock; sqlite3 can raise (disk, a locked file, a closed connection), which
\* line 181 turns into the return value False; the with releases the lock
fan_store ==
    /\ w_pc["detection"] = "store"
    /\ LET f == Head(frames["detection"]) IN
       \E ok \in (IF db_open THEN BOOLEAN ELSE {FALSE}) :
        /\ db_detections' = IF ok THEN db_detections \cup {f} ELSE db_detections
        /\ db_failed' = IF ok THEN db_failed ELSE db_failed \cup {f}
        /\ w_pc' = [w_pc EXCEPT !["detection"] = AfterStore(ok)]
    /\ db_lock' = "free"
    /\ UNCHANGED <<pmVars, now, processed_files, frames, detected,
                   detection_history, sm_running, lk_pc, broadcasts, fan_snap,
                   errVars>>
    /\ UNCHANGED_fan

\* detection_worker, lines 184-185 and 199-201, web_interface.py:175-179: the
\* event is passed to broadcast_detection, whose socketio.emit is not guarded;
\* an exception leaves the for loop of line 162 for the except of line 199,
\* and the frames of the poll not yet reached go out of scope
fan_broadcast ==
    /\ w_pc["detection"] = "broadcast"
    /\ LET f == Head(frames["detection"]) IN
        broadcasts' = broadcasts \cup {f}
    /\ \E raised \in BOOLEAN :
        IF raised
        THEN /\ frames' = [frames EXCEPT !["detection"] = <<>>]
             /\ w_pc' = [w_pc EXCEPT !["detection"] = "loop"]
        ELSE /\ frames' = [frames EXCEPT !["detection"] = Tail(@)]
             /\ w_pc' = [w_pc EXCEPT !["detection"] = "detect"]
    /\ UNCHANGED <<pmVars, now, processed_files, detected, detection_history,
                   db_detections, sm_running, lockVars, db_failed, fan_snap,
                   errVars>>
    /\ UNCHANGED_fan

\* the fan-out variables and the manager are left alone
UNCHANGED_worker ==
    UNCHANGED <<pmVars, now, pipeVars, detection_history, db_detections,
                fanVars, errVars>>

\* a thread calls a locking method of the database: check_health from
\* _check_system_health (system_manager.py:276), get_status from
\* SystemManager.get_status (system_manager.py:327)
lock_call(t) ==
    /\ lk_pc[t] = "idle"
    /\ lk_pc' = [lk_pc EXCEPT ![t] = "wait"]
    /\ UNCHANGED db_lock
    /\ UNCHANGED_worker
    /\ UNCHANGED_fan

\* database_manager.py:464 and :500: with self.lock, entered when it is free
lock_acquire(t) ==
    /\ lk_pc[t] = "wait"
    /\ db_lock = "free"
    /\ db_lock' = t
    /\ lk_pc' = [lk_pc EXCEPT ![t] = "held"]
    /\ UNCHANGED_worker
    /\ UNCHANGED_fan

\* database_manager.py:465-491 and :501-509: the queries are done, the with
\* block is left
lock_release(t) ==
    /\ lk_pc[t] = "held"
    /\ db_lock' = "free"
    /\ lk_pc' = [lk_pc EXCEPT ![t] = "idle"]
    /\ UNCHANGED_worker
    /\ UNCHANGED_fan

\* DatabaseManager.shutdown, database_manager.py:519-530, called by
\* SystemManager.shutdown (system_manager.py:309) after running = False:
\* self.connection.close(), outside 'with self.lock'
db_shutdown ==
    /\ ~sm_running
    /\ db_open
    /\ db_open' = FALSE
    /\ UNCHANGED <<pmVars, now, obsVars, raceVars, pipeVars, logVars, methVars,
                   sysVars, cfgVars, lockVars, fanVars, errVars, monVars,
                   cleanVars, runVars, loopVars>>

\* new_photo, sm_shutdown, worker_exit and detection_sleep are the steps of
\* the pipeline above
NextFanout ==
    \/ new_photo
    \/ sm_shutdown
    \/ db_shutdown
    \/ worker_exit("detection")
    \/ fan_poll
    \/ fan_detect
    \/ fan_acquire
    \/ fan_store
    \/ fan_broadcast
    \/ detection_sleep
    \/ \E t \in LockUsers : lock_call(t)
    \/ \E t \in LockUsers : lock_acquire(t)
    \/ \E t \in LockUsers : lock_release(t)

\* the worker is started on a manager without cooldown, with the threshold 1
\* or the largest one
InitFanout ==
    /\ Init
    /\ cooldown_period = 0
    /\ alert_threshold \in {1, MaxThreshold}

SpecFanout == InitFanout /\ [][NextFanout]_vars

(* ---------------------- the monitoring worker ------------------------- *)
\* _monitoring_worker (monitoring_manager.py:87-107) followed through its loop
\* body: _update_system_stats, _check_system_health, then _cleanup_old_data and
\* the sleep; log_detection and log_error are called from other threads.
UNCHANGED_mon ==
    UNCHANGED <<pmVars, obsVars, raceVars, pipeVars, nonempty, db_detections,
                db_alerts, methVars, sysVars, cfgVars, lockVars, fanVars,
                detect_failures, cleanVars, runVars, loopVars, db_open>>

\* _check_system_health, lines 140, 144 and 148: the limits of the three tests
CpuLimit == 80
MemoryLimit == 85
DiskLimit == 90
\* the percentages psutil reports: idle, exactly at the limit, just above it
CpuValues == {0, CpuLimit, CpuLimit + 1}
MemoryValues == {MemoryLimit, MemoryLimit + 1}
DiskValues == {DiskLimit, DiskLimit + 1}
\* the read of _update_system_stats that raises, if any (lines 113, 116, 120)
Reads == {"none", "cpu", "memory", "disk"}

\* a faulty variant of UpdateStats: each value is stored as soon as it is read
PartialUpdate(stats, failed, c, m, d, up) ==
    IF failed = "none"
    THEN [cpu_usage |-> c, memory_usage |-> m, disk_usage |-> d, uptime |-> up]
    ELSE IF failed = "cpu" THEN stats
    ELSE IF failed = "memory" THEN [stats EXCEPT !.cpu_usage = c]
    ELSE [stats EXCEPT !.cpu_usage = c, !.memory_usage = m]
\* _update_system_stats, lines 111-132: the three reads come first and the one
\* system_stats.update of line 124 follows; a read that raises goes to the
\* except of line 131 with nothing stored
UpdateStats(stats, failed, c, m, d, up) ==
    IF failed = "none"
    THEN [cpu_usage |-> c, memory_usage |-> m, disk_usage |-> d, uptime |-> up]
    ELSE stats

\* _monitoring_worker, line 94: the sample; start_time is the time 0 of
\* _initialize_system_stats
mon_update ==
    /\ mw_pc = "update"
    /\ \E failed \in Reads, c \in CpuValues, m \in MemoryValues,
          d \in DiskValues :
        /\ system_stats' = UpdateStats(system_stats, failed, c, m, d, now)
        /\ sample_failed' = (failed # "none")
    /\ mw_pc' = "check"
    /\ UNCHANGED <<now, detection_history, error_count, health_status, mc_tmp>>
    /\ UNCHANGED_mon

\* a faulty variant of HealthStatus: a value at its limit is an issue
HealthAtLimit(stats) ==
    IF \/ stats.cpu_usage >= CpuLimit
       \/ stats.memory_usage >= MemoryLimit
       \/ stats.disk_usage >= DiskLimit
    THEN "warning" ELSE "healthy"
\* _check_system_health, lines 136-157
HealthStatus(stats) ==
    IF \/ stats.cpu_usage > CpuLimit
       \/ stats.memory_usage > MemoryLimit
       \/ stats.disk_usage > DiskLimit
    THEN "warning" ELSE "healthy"

\* _monitoring_worker, line 97
mon_check ==
    /\ mw_pc = "check"
    /\ health_status' = HealthStatus(system_stats)
    /\ mw_pc' = "cleanup"
    /\ UNCHANGED <<now, detection_history, error_count, system_stats,
                   sample_failed, mc_tmp>>
    /\ UNCHANGED_mon

\* _cleanup_old_data, lines 167-173: the list comprehension builds a new
\* list from the records of detection_history younger than retention_days,
\* 30 days (line 26), which every record of a run this short is
mon_cleanup_read ==
    /\ mw_pc = "cleanup"
    /\ mc_tmp' = detection_history
    /\ mw_pc' = "assign"
    /\ UNCHANGED <<now, detection_history, error_count, system_stats,
                   health_status, sample_failed>>
    /\ UNCHANGED_mon

\* _cleanup_old_data, line 170: the new list is stored in
\* self.detection_history; no lock is held between the read of the attribute
\* and this store, nor by the append of log_detection (line 205)
mon_cleanup_assign ==
    /\ mw_pc = "assign"
    /\ detection_history' = mc_tmp
    /\ mc_tmp' = {}
    /\ mw_pc' = "sleep"
    /\ UNCHANGED <<now, error_count, system_stats, health_status,
                   sample_failed>>
    /\ UNCHANGED_mon

\* _monitoring_worker, lines 103 and 91: the sleep and the next test of
\* self.running
mon_sleep ==
    /\ mw_pc = "sleep"
    /\ mw_pc' = "update"
    /\ UNCHANGED <<now, detection_history, error_count, system_stats,
                   health_status, sample_failed, mc_tmp>>
    /\ UNCHANGED_mon

\* MonitoringManager.log_detection, lines 190-219, for the event of a file
mon_log_detection ==
    /\ \E f \in Files : detection_history' = detection_history \cup {f}
    /\ UNCHANGED <<now, error_count, monVars>>
    /\ UNCHANGED_mon

\* MonitoringManager.log_error, lines 221-234
mon_log_error ==
    /\ error_count < MaxErrors
    /\ error_count' = error_count + 1
    /\ UNCHANGED <<now, detection_history, monVars>>
    /\ UNCHANGED_mon

NextMonitoring ==
    \/ race_tick
    \/ mon_update
    \/ mon_check
    \/ mon_cleanup_read
    \/ mon_cleanup_assign
    \/ mon_sleep
    \/ mon_log_detection
    \/ mon_log_error

\* the worker is started by MonitoringManager.initialize (line 52); the
\* PreventionManager beside it has one configuration
InitMonitoring ==
    /\ Init
    /\ enabled
    /\ cooldown_period = 0
    /\ alert_threshold = 1

SpecMonitoring == InitMonitoring /\ [][NextMonitoring]_vars

(* ------------------------- the retention ------------------------------ *)
\* DatabaseManager.cleanup_old_data (database_manager.py:401-437) among the
\* writes of the log_ methods. A row is its timestamp column, one row per
\* table, form and time unit: datetime.now().isoformat() text (lines 170, 196,
\* 219, 244), or the time.time() float the detection worker puts in its event
\* (system_manager.py:168), which the TEXT column of line 87 keeps as the text
\* of the number.
UNCHANGED_db ==
    UNCHANGED <<pmVars, obsVars, raceVars, pipeVars, logVars, methVars, sysVars,
                cfgVars, lockVars, fanVars, errVars, monVars, runVars,
                loopVars, db_open>>

\* the forms of timestamp a log_ method of the table can store
Forms(tb) == IF tb = "detections" THEN {"iso", "epoch"} ELSE {"iso"}

\* lines 410-426, timestamp < ? with the cutoff's isoformat(): texts are
\* compared character by character, ISO texts of one form in the order of
\* their times, and the text of an epoch number (1...) before any ISO text of
\* this century (20...)
Older(row, cutoff) == row.form = "epoch" \/ row.t < cutoff

\* a faulty variant of AfterCleanup: the alerts table is counted but its
\* DELETE is missing
AlertsKept(tbs, cutoff) ==
    [tb \in Tables |->
        IF tb = "alerts" THEN tbs[tb]
        ELSE {row \in tbs[tb] : ~Older(row, cutoff)}]
\* lines 423-428: the four DELETEs and the commit
AfterCleanup(tbs, cutoff) ==
    [tb \in Tables |-> {row \in tbs[tb] : ~Older(row, cutoff)}]

\* lines 410-420 and 430: the four counts, taken before the DELETEs, added up
ToDelete(tbs, cutoff) ==
    Cardinality({row \in tbs["detections"] : Older(row, cutoff)})
    + Cardinality({row \in tbs["system_events"] : Older(row, cutoff)})
    + Cardinality({row \in tbs["performance_metrics"] : Older(row, cutoff)})
    + Cardinality({row \in tbs["alerts"] : Older(row, cutoff)})

\* log_detection, log_event, log_metrics, log_alert (lines 160-255): a row
\* with the current time
db_write ==
    /\ Cardinality(tables["detections"]) + Cardinality(tables["system_events"])
       + Cardinality(tables["performance_metrics"])
       + Cardinality(tables["alerts"]) < MaxRows
    /\ \E tb \in Tables :
        \E form \in Forms(tb) :
            tables' = [tables EXCEPT ![tb] = @ \cup {[form |-> form, t |-> now]}]
    /\ cleanup_ret' = <<>>
    /\ UNCHANGED now
    /\ UNCHANGED_db

\* cleanup_old_data(days), lines 401-437: the cutoff is taken from the clock
\* at each call (line 407); an exception of sqlite3 is turned into the return
\* value 0 (lines 435-437) with nothing committed
db_cleanup ==
    /\ Len(cleanup_ret) < MaxCleanups
    /\ \E days \in 0..MaxDays, ok \in BOOLEAN :
        LET cutoff == now - days
            after == IF ok THEN AfterCleanup(tables, cutoff) ELSE tables
        IN  /\ tables' = after
            /\ cleanup_ret' =
                   Append(cleanup_ret,
                          [days |-> days, at |-> now, ok |-> ok,
                           deleted |-> IF ok THEN ToDelete(tables, cutoff)
                                       ELSE 0,
                           after |-> after])
    /\ UNCHANGED now
    /\ UNCHANGED_db

\* get_detections(limit, days), lines 257-284, with a limit no smaller than
\* the table: timestamp > ? against the cutoff's isoformat(), a comparison of
\* texts in which the text of an epoch number is before every ISO text
GetDetections(tbs, cutoff) ==
    {row \in tbs["detections"] : row.form = "iso" /\ row.t > cutoff}

NextCleanup ==
    \/ race_tick
    \/ db_write
    \/ db_cleanup

\* the database beside the one configuration of InitMonitoring
SpecCleanup == InitMonitoring /\ [][NextCleanup]_vars

(* --------------------------- the main loop ---------------------------- *)
\* SystemManager._main_loop (system_manager.py:254-268): the health pass over
\* the components, _update_system_status, the sleep and the while test.
UNCHANGED_loop ==
    UNCHANGED <<pmVars, obsVars, raceVars, pipeVars, logVars, methVars, sysVars,
                cfgVars, lockVars, fanVars, errVars, monVars, cleanup_ret,
                runVars, db_open>>

\* self.components in the order _initialize_components fills it
\* (system_manager.py:49-65), the order in which .items() yields it
ComponentOrder ==
    <<"database", "camera", "detector", "prevention", "monitoring", "web">>
\* which of the keys 'healthy', 'message' and 'status' the check_health of a
\* component returns: camera_manager.py:308-320 and mosquito_detector.py:
\* 203-223 give 'healthy' and 'message'; database_manager.py:505-516,
\* prevention_manager.py:220-225, monitoring_manager.py:292-298 and
\* web_interface.py:245-250 give 'status' and neither of the two
HealthKeys(c) ==
    IF c \in {"camera", "detector"} THEN {"healthy", "message"} ELSE {"status"}

\* _check_system_health, lines 273-279, for the component the pass is at:
\* check_health() is called and health['healthy'] read; without the key the
\* KeyError leaves the for loop for the except of line 279, which logs
main_check ==
    /\ ml_pc = "health"
    /\ LET c == ComponentOrder[ml_i] IN
        /\ health_checked' = health_checked \cup {c}
        /\ IF "healthy" \in HealthKeys(c)
           THEN /\ ml_i' = IF ml_i < Len(ComponentOrder) THEN ml_i + 1 ELSE ml_i
                /\ ml_pc' = IF ml_i < Len(ComponentOrder) THEN "health"
                            ELSE "status"
           ELSE /\ ml_pc' = "status"
                /\ UNCHANGED ml_i
    /\ UNCHANGED <<now, tables, ml_iterations>>
    /\ UNCHANGED_loop

\* _update_system_status, lines 282-297: the first entry of metrics calls
\* monitoring.get_detection_rate(), which MonitoringManager does not define
\* (nor PreventionManager is_active, nor DatabaseManager update_metrics): the
\* AttributeError goes to the except of line 296 and nothing is written
UpdateSystemStatus(tbs, t) == tbs

\* _main_loop, line 263
main_status ==
    /\ ml_pc = "status"
    /\ tables' = UpdateSystemStatus(tables, now)
    /\ ml_pc' = "sleep"
    /\ UNCHANGED <<now, ml_i, health_checked, ml_iterations>>
    /\ UNCHANGED_loop

\* _main_loop, lines 265 and 258: the sleep ends the iteration, the while
\* test starts the next pass or leaves the loop
main_sleep ==
    /\ ml_pc = "sleep"
    /\ ml_iterations < MaxPasses
    /\ ml_iterations' = ml_iterations + 1
    /\ ml_pc' = IF sm_running THEN "health" ELSE "exited"
    /\ ml_i' = 1
    /\ health_checked' = {}
    /\ UNCHANGED <<now, tables>>
    /\ UNCHANGED_loop

\* race_tick lets the time pass; sm_shutdown is SystemManager.shutdown called
\* from a request thread (web_interface.py:124)
NextMainLoop ==
    \/ race_tick
    \/ sm_shutdown
    \/ main_check
    \/ main_status
    \/ main_sleep

SpecMainLoop == InitFanout /\ [][NextMainLoop]_vars

(* ------------------------ run() called again -------------------------- *)
\* SystemManager.run (system_manager.py:109-136) called by main and, through
\* POST /api/control/start, by a request thread of the web server; the
\* workers are counted, their loop bodies are not followed.
UNCHANGED_run ==
    UNCHANGED <<pmVars, now, obsVars, raceVars, logVars, methVars, sysVars,
                cfgVars, lockVars, fanVars, errVars, monVars, cleanVars,
                loopVars, db_open, folder, decodable, processed_files, w_pc,
                image_files, image_file, frames, detected>>

\* run, lines 116-129: after the start of each worker, what the caller does
\* next
AfterStart ==
    [camera |-> "detection", detection |-> "prevention",
     prevention |-> "main_loop"]

\* api_start, web_interface.py:109-114, and run, line 112: no test of
\* self.running or of self.threads precedes self.running = True
run_call ==
    /\ run_pc["api"] = "idle"
    /\ runs < MaxRuns
    /\ runs' = runs + 1
    /\ sm_running' = TRUE
    /\ run_pc' = [run_pc EXCEPT !["api"] = "camera"]
    /\ UNCHANGED live
    /\ UNCHANGED_run

\* _start_camera_thread, _start_detection_thread, _start_prevention_thread
\* (lines 138-226): a new Thread is stored in self.threads under the name,
\* whatever it held, and started
run_start(c) ==
    /\ run_pc[c] \in WorkerKinds
    /\ live' = [live EXCEPT ![run_pc[c]] = @ + 1]
    /\ run_pc' = [run_pc EXCEPT ![c] = AfterStart[run_pc[c]]]
    /\ UNCHANGED <<sm_running, runs>>
    /\ UNCHANGED_run

\* run, lines 129-136, and _main_loop, line 258: the loop ends once
\* self.running is false, and the finally calls shutdown(), which clears it
run_return(c) ==
    /\ run_pc[c] = "main_loop"
    /\ ~sm_running
    /\ run_pc' = [run_pc EXCEPT ![c] = "idle"]
    /\ UNCHANGED <<sm_running, live, runs>>
    /\ UNCHANGED_run

\* a worker's 'while self.running' (lines 141, 157, 210) finds it false: the
\* thread ends
worker_end(k) ==
    /\ live[k] > 0
    /\ ~sm_running
    /\ live' = [live EXCEPT ![k] = @ - 1]
    /\ UNCHANGED <<sm_running, run_pc, runs>>
    /\ UNCHANGED_run

\* sm_shutdown is shutdown() called by api_stop or by a caller of run
NextRun ==
    \/ sm_shutdown
    \/ run_call
    \/ \E c \in RunCallers : run_start(c)
    \/ \E c \in RunCallers : run_return(c)
    \/ \E k \in WorkerKinds : worker_end(k)

SpecRun == InitFanout /\ [][NextRun]_vars

(* ------------------ the methods of a firing alert --------------------- *)
\* the method names drawn for the configuration: three that
\* _execute_prevention_method dispatches on (lines 138-147; email and webhook
\* are placeholders like notification) and one it does not know (line 148)
MethodNames == {"alert", "log", "notification", "siren"}
\* the lists config['methods'] can hold, repetitions included
MethodLists == UNION {[1..n -> MethodNames] : n \in 0..MaxMethods}

\* whether the execution of a method can raise: _send_alert (lines 158-161)
\* and _log_alert (line 170) format the event's classes and confidence, which
\* raises on a malformed event; the placeholders and the unknown-method
\* branch only log
CanRaise(method) == IF method \in {"alert", "log"} THEN BOOLEAN ELSE {FALSE}

\* a faulty variant of AfterMethod: an exception leaves the loop (n + 2 is
\* the exit through the handler of line 130)
AbortOnRaise(i, raised, n) == IF raised THEN n + 2 ELSE i + 1
\* _execute_prevention_method, lines 136-151: the dispatch runs inside
\* try/except, the exception is logged and the loop of line 125 goes on with
\* the next method
AfterMethod(i, raised, n) == i + 1

\* process_detection, lines 60-122: the call up to the append of the alert
\* record; a call that does not fire returns False at line 84
methods_call ==
    /\ m_pc = 0
    /\ ncalls < MaxMethodCalls
    /\ ncalls' = ncalls + 1
    /\ \E k \in 1..MaxDetections :
        /\ PMCall(k, 0)
        /\ IF WillFire(k)
           THEN /\ m_pc' = 1
                /\ m_ret' = "pending"
                /\ m_snap' = <<detection_count', last_alert_time', alert_history'>>
           ELSE /\ m_pc' = 0
                /\ m_ret' = "False"
                /\ m_snap' = <<>>
    /\ executed' = <<>>
    /\ UNCHANGED <<last, scenario, received, methods, raceVars, pipeVars,
                   logVars, sysVars, cfgVars, extVars>>

\* lines 125-126 and 134-151: the next method of the list is executed; it
\* writes no field of the manager
methods_execute ==
    /\ m_pc \in 1..Len(methods)
    /\ \E raised \in CanRaise(methods[m_pc]) :
        /\ executed' = Append(executed, [method |-> methods[m_pc],
                                         raised |-> raised])
        /\ m_pc' = AfterMethod(m_pc, raised, Len(methods))
    /\ UNCHANGED <<pmVars, now, obsVars, methods, m_ret, m_snap, raceVars,
                   pipeVars, logVars, sysVars, cfgVars, extVars>>

\* line 128: return True after the loop (lines 130-132: False from the
\* handler)
methods_return ==
    /\ m_pc > Len(methods)
    /\ m_ret' = IF m_pc = Len(methods) + 1 THEN "True" ELSE "False"
    /\ m_pc' = 0
    /\ UNCHANGED <<pmVars, now, obsVars, methods, executed, m_snap, raceVars,
                   pipeVars, logVars, sysVars, cfgVars, extVars>>

NextMethods ==
    \/ race_tick
    \/ methods_call
    \/ methods_execute
    \/ methods_return

\* an enabled manager with any list of methods and no or the shortest cooldown
InitMethods ==
    /\ InitManagers
    /\ enabled
    /\ cooldown_period \in {0, 1}
    /\ InitLog
    /\ methods \in MethodLists
    /\ NoMethodCall
    /\ InitSystem
    /\ InitConfig
    /\ InitExt

SpecMethods == InitMethods /\ [][NextMethods]_vars

(* ------------------- the threads and shutdown -------------------------- *)
\* what the threads and shutdown leave alone: all but the prevention
\* manager's fields, SystemManager.running and the state of this section
UNCHANGED_sys ==
    UNCHANGED <<now, obsVars, raceVars, logVars, methVars, cfgVars, extVars,
                folder, decodable, processed_files, w_pc, image_files,
                image_file, frames, detected>>

\* threading.Thread.is_alive
IsAlive(t) == t_pc[t] \notin {"unstarted", "exited"}

\* the loop condition of each looping thread: 'while self.running'
\* (system_manager.py:141, 157, 210; monitoring_manager.py:91) and 'while
\* self.running and self.components['web'].running' (system_manager.py:244)
LoopCondition(t) ==
    CASE t = "monitoring" -> mon_running
      [] t = "web" -> sm_running /\ web_running
      [] OTHER -> sm_running
\* the threads that run a loop; the server thread runs socketio.run
Loopers == Threads \ {"server"}
\* the threads whose loop body makes external calls that may never return:
\* cv2.imread and the camera reads (camera_manager.py:167, 199, 221), the
\* model inference (mosquito_detector.py:76), psutil
\* (monitoring_manager.py:113-120); the prevention worker's body raises at
\* once and the web worker's only sleeps
Blockable == {"camera", "detection", "monitoring"}

\* _monitoring_worker, line 89: self.running = True, the thread's first
\* statement
monitoring_start ==
    /\ t_pc["monitoring"] = "started"
    /\ mon_running' = TRUE
    /\ t_pc' = [t_pc EXCEPT !["monitoring"] = "loop"]
    /\ UNCHANGED <<pmVars, sm_running, web_running, sd_pc, sd_timeouts,
                   prevention_failures>>
    /\ UNCHANGED_sys

\* web_worker, system_manager.py:233-241: web.start() (web_interface.py:
\* 204-217, the interface enabled) sets running and starts the server thread
web_start ==
    /\ t_pc["web"] = "started"
    /\ web_running' = TRUE
    /\ t_pc' = [t_pc EXCEPT !["web"] = "loop", !["server"] = "serving"]
    /\ UNCHANGED <<pmVars, sm_running, mon_running, sd_pc, sd_timeouts,
                   prevention_failures>>
    /\ UNCHANGED_sys

\* the while test of a looping thread: into the body, or out of the loop and
\* the thread ends
thread_loop(t) ==
    /\ t_pc[t] = "loop"
    /\ t_pc' = [t_pc EXCEPT ![t] = IF LoopCondition(t) THEN "body" ELSE "exited"]
    /\ UNCHANGED <<pmVars, sm_running, mon_running, web_running, sd_pc,
                   sd_timeouts, prevention_failures>>
    /\ UNCHANGED_sys

\* one loop body with its sleep. The prevention worker's body calls
\* prevention.check_status() (system_manager.py:213), which
\* PreventionManager does not define: the AttributeError is caught at line
\* 220 and logged, in every iteration (counted up to MaxIterations)
thread_body(t) ==
    /\ t_pc[t] = "body"
    /\ t_pc' = [t_pc EXCEPT ![t] = "loop"]
    /\ prevention_failures' =
           IF t = "prevention" /\ prevention_failures < MaxIterations
           THEN prevention_failures + 1
           ELSE prevention_failures
    /\ UNCHANGED <<pmVars, sm_running, mon_running, web_running, sd_pc,
                   sd_timeouts>>
    /\ UNCHANGED_sys

\* an external call in the loop body never returns: the thread is stuck
thread_block(t) ==
    /\ t \in Blockable
    /\ t_pc[t] = "body"
    /\ t_pc' = [t_pc EXCEPT ![t] = "blocked"]
    /\ UNCHANGED <<pmVars, sm_running, mon_running, web_running, sd_pc,
                   sd_timeouts, prevention_failures>>
    /\ UNCHANGED_sys

\* SystemManager.shutdown, line 302: self.running = False
shutdown_signal ==
    /\ sd_pc = "idle"
    /\ sm_running' = FALSE
    /\ sd_pc' = "components"
    /\ UNCHANGED <<pmVars, t_pc, mon_running, web_running, sd_timeouts,
                   prevention_failures>>
    /\ UNCHANGED_sys

\* lines 306-309 for database, camera, detector and prevention: the
\* connection is closed, the cameras released, the model dropped, and
\* PreventionManager.shutdown (prevention_manager.py:230) clears its running
shutdown_components ==
    /\ sd_pc = "components"
    /\ running' = FALSE
    /\ sd_pc' = "monitoring"
    /\ UNCHANGED <<enabled, alert_threshold, cooldown_period, detection_count,
                   last_alert_time, alert_history, sm_running, t_pc,
                   mon_running, web_running, sd_timeouts, prevention_failures>>
    /\ UNCHANGED_sys

\* MonitoringManager.shutdown, line 317: self.running = False
shutdown_monitoring ==
    /\ sd_pc = "monitoring"
    /\ mon_running' = FALSE
    /\ sd_pc' = "monitoring_join"
    /\ UNCHANGED <<pmVars, sm_running, t_pc, web_running, sd_timeouts,
                   prevention_failures>>
    /\ UNCHANGED_sys

\* a faulty variant of JoinReturns: join() without a timeout returns only
\* once the thread has ended
JoinForever(alive) == ~alive
\* thread.join(timeout=5.0) (system_manager.py:315, monitoring_manager.py:
\* 320) returns when the thread has ended or the timeout has passed
JoinReturns(alive) == TRUE

\* the threads whose join has timed out, after a join of t that returns
\* while t is alive
AfterJoin(t) == IF IsAlive(t) THEN sd_timeouts \cup {t} ELSE sd_timeouts

\* MonitoringManager.shutdown, lines 319-320: the join of the monitoring
\* thread, if it is alive
shutdown_monitoring_join ==
    /\ sd_pc = "monitoring_join"
    /\ JoinReturns(IsAlive("monitoring"))
    /\ sd_timeouts' = AfterJoin("monitoring")
    /\ sd_pc' = "web_stop"
    /\ UNCHANGED <<pmVars, sm_running, t_pc, mon_running, web_running,
                   prevention_failures>>
    /\ UNCHANGED_sys

\* WebInterface.shutdown -> stop, web_interface.py:223-230: running = False;
\* the server thread is neither stopped nor joined
shutdown_web ==
    /\ sd_pc = "web_stop"
    /\ web_running' = FALSE
    /\ sd_pc' = "camera"
    /\ UNCHANGED <<pmVars, sm_running, t_pc, mon_running, sd_timeouts,
                   prevention_failures>>
    /\ UNCHANGED_sys

\* the order of self.threads (system_manager.py:150, 203, 224, 250): after
\* the join of each thread, the thread joined next, or the return
AfterThread ==
    [camera |-> "detection", detection |-> "prevention", prevention |-> "web",
     web |-> "returned"]
\* the threads shutdown joins itself
Joined == DOMAIN AfterThread

\* SystemManager.shutdown, lines 312-315: the join of thread t, if it is
\* alive; sd_pc names the thread whose turn it is
shutdown_join(t) ==
    /\ sd_pc = t
    /\ JoinReturns(IsAlive(t))
    /\ sd_timeouts' = AfterJoin(t)
    /\ sd_pc' = AfterThread[t]
    /\ UNCHANGED <<pmVars, sm_running, t_pc, mon_running, web_running,
                   prevention_failures>>
    /\ UNCHANGED_sys

\* SystemManager.shutdown returns None on every path (lines 299-320) and
\* logs "System shutdown completed" whatever the joins found: the threads it
\* reports as not stopped, given those whose join timed out
ShutdownReport(timedOut) == {}

LoopTest == \E t \in Loopers : thread_loop(t)
LoopBody == \E t \in Loopers : thread_body(t)
Block == \E t \in Loopers : thread_block(t)
Join == \E t \in Joined : shutdown_join(t)

\* the steps of the caller of shutdown after line 302
ShutdownStep ==
    \/ shutdown_components
    \/ shutdown_monitoring
    \/ shutdown_monitoring_join
    \/ shutdown_web
    \/ Join

NextShutdown ==
    \/ monitoring_start
    \/ web_start
    \/ LoopTest
    \/ LoopBody
    \/ Block
    \/ shutdown_signal
    \/ ShutdownStep

\* the system after initialize() and run() have started the threads
\* (monitoring_manager.py:84; system_manager.py:151, 204, 225, 251): the
\* three workers at their while test, the monitoring thread and the web
\* worker before their first statement, the server thread not yet created
InitShutdown ==
    /\ InitManagers
    /\ enabled
    /\ alert_threshold = MaxThreshold
    /\ cooldown_period = MaxCooldown
    /\ InitLog
    /\ methods = DefaultMethods
    /\ NoMethodCall
    /\ InitConfig
    /\ t_pc = [t \in Threads |->
                  CASE t \in {"monitoring", "web"} -> "started"
                    [] t = "server" -> "unstarted"
                    [] OTHER -> "loop"]
    /\ mon_running = FALSE
    /\ web_running = FALSE
    /\ sd_pc = "idle"
    /\ sd_timeouts = {}
    /\ prevention_failures = 0
    /\ InitExt

\* every started thread is scheduled again and again, and so is the caller
\* of shutdown once it has entered it; whether shutdown is called and
\* whether an external call returns is left open
FairShutdown ==
    /\ WF_vars(monitoring_start)
    /\ WF_vars(web_start)
    /\ \A t \in Loopers : WF_vars(thread_loop(t)) /\ WF_vars(thread_body(t))
    /\ WF_vars(ShutdownStep)

SpecShutdown == InitShutdown /\ [][NextShutdown]_vars /\ FairShutdown

(* ----------------------------- startup -------------------------------- *)
\* what startup leaves alone: all but the prevention manager's fields,
\* SystemManager.running and the state of this section
UNCHANGED_startup ==
    UNCHANGED <<now, obsVars, raceVars, logVars, methVars, sysVars, extVars,
                folder, decodable, processed_files, w_pc, image_files,
                image_file, frames, detected>>

\* the values a configuration file can give: the two thresholds in tenths
\* (below 0.0, the ends of the range, a value inside, above 1.0), the
\* detection interval in tenths and the alert threshold
FileThresholds == {-1, 0, 3, 10, 11}
FileIntervals == {-10, 0, 10}
FileConfigs ==
    [confidence_threshold : FileThresholds, iou_threshold : FileThresholds,
     detection_interval : FileIntervals, alert_threshold : 0..MaxThreshold]

\* ConfigLoader._validate_detection_settings, config_loader.py:215-229: the
\* only tests _validate_config makes on these settings; alert_threshold is
\* tested nowhere (prevention_manager.py:50-58 tests the type of methods)
DetectionSettingsValid(c) ==
    /\ 0 <= c.confidence_threshold /\ c.confidence_threshold <= 10
    /\ 0 <= c.iou_threshold /\ c.iou_threshold <= 10
    /\ c.detection_interval > 0

\* ConfigLoader.load, config_loader.py:121-151, for a file that gives the
\* four settings (_merge_configs then takes each from the file): the
\* ValueError of the validation is caught at line 148 and
\* self.defaults.copy() returned
LoadConfig(file) ==
    IF DetectionSettingsValid(file) THEN file ELSE DefaultConfig

\* main.py:68-69: config = config_loader.load()
main_load ==
    /\ st_pc = "start"
    /\ config' = LoadConfig(file_config)
    /\ st_pc' = "loaded"
    /\ UNCHANGED <<pmVars, sm_running, file_config, started>>
    /\ UNCHANGED_startup

\* main.py:84, SystemManager(config, mode): PreventionManager.__init__ reads
\* alert_threshold from the configuration (prevention_manager.py:21)
main_construct ==
    /\ st_pc = "loaded"
    /\ alert_threshold' = config.alert_threshold
    /\ st_pc' = "constructed"
    /\ UNCHANGED <<enabled, cooldown_period, detection_count, last_alert_time,
                   alert_history, running, sm_running, file_config, config,
                   started>>
    /\ UNCHANGED_startup

\* main.py:88, SystemManager.initialize: of the components' initialize,
\* PreventionManager's (prevention_manager.py:33-48) validates the type of
\* methods, a list here, and clears alert_history
main_initialize ==
    /\ st_pc = "constructed"
    /\ alert_history' = <<>>
    /\ st_pc' = "initialized"
    /\ UNCHANGED <<enabled, alert_threshold, cooldown_period, detection_count,
                   last_alert_time, running, sm_running, file_config, config,
                   started>>
    /\ UNCHANGED_startup

\* main.py:92, SystemManager.run, system_manager.py:112-126: running = True
\* and the four worker threads are started
main_run ==
    /\ st_pc = "initialized"
    /\ sm_running' = TRUE
    /\ started' = Joined
    /\ st_pc' = "running"
    /\ UNCHANGED <<pmVars, file_config, config>>
    /\ UNCHANGED_startup

NextStartup ==
    \/ main_load
    \/ main_construct
    \/ main_initialize
    \/ main_run

\* main starts with any configuration file
InitStartup ==
    /\ InitManagers
    /\ enabled
    /\ alert_threshold = DefaultConfig.alert_threshold
    /\ cooldown_period = MaxCooldown
    /\ InitLog
    /\ methods = DefaultMethods
    /\ NoMethodCall
    /\ InitSystem
    /\ file_config \in FileConfigs
    /\ config = DefaultConfig
    /\ st_pc = "start"
    /\ started = {}
    /\ InitExt

SpecStartup == InitStartup /\ [][NextStartup]_vars

(* ------------------- claims about the alert engine --------------------- *)
\* the latest call was process_detection on an enabled manager
IsCall == last.op = "process_detection" /\ enabled
\* the latest call appended an alert record (_trigger_prevention_actions ran)
AlertFired == IsCall /\ Len(alert_history) > last.preHist
\* the cooldown had elapsed when the latest call read the clock (line 92)
CooldownElapsed ==
    last.preLast = <<>> \/ last.t - last.preLast[1] >= cooldown_period
\* the latest call met the threshold but fell inside the cooldown
Suppressed ==
    IsCall /\ last.afterInc >= alert_threshold /\ ~CooldownElapsed

\* C1: an alert is fired only by a call which, after its increment, has
\* detection_count >= alert_threshold and finds last_alert_time None or at
\* least cooldown_period old; hence the alert times of two consecutive alerts
\* are at least cooldown_period apart.
C1_AlertOnlyWhenDue ==
    AlertFired =>
        /\ last.afterInc >= alert_threshold
        /\ CooldownElapsed
        /\ last.preLast # <<>> =>
               last_alert_time[1] - last.preLast[1] >= cooldown_period
\* a second alert has fired under a positive cooldown
C1_Witness ==
    AlertFired /\ last.preLast # <<>> /\ cooldown_period > 0

\* C2: a call on an enabled manager fires (returns True and appends exactly
\* one record) exactly when it leaves detection_count >= alert_threshold with
\* no previous alert or one at least cooldown_period old; every other call
\* returns False and appends nothing.
C2_FiresExactlyWhenDue ==
    IsCall =>
        IF last.afterInc >= alert_threshold /\ CooldownElapsed
        THEN last.ret = TRUE /\ Len(alert_history) = last.preHist + 1
        ELSE last.ret = FALSE /\ Len(alert_history) = last.preHist
\* a call fired with the count exactly at the threshold and the cooldown
\* exactly elapsed
C2_Witness ==
    /\ AlertFired
    /\ last.afterInc = alert_threshold
    /\ last.preLast # <<>>
    /\ cooldown_period > 0
    /\ last.t - last.preLast[1] = cooldown_period

\* the run so far is the scenario: threshold 3, cooldown 5, one-detection
\* events at ScenarioTimes and nothing else
InScenario ==
    scenario.on /\ enabled /\ alert_threshold = 3 /\ cooldown_period = 5
ScenarioOutcome(firedAt, countAt) ==
    InScenario =>
        \A i \in 1..Len(scenario.calls) :
            /\ scenario.calls[i].fired = firedAt[i]
            /\ countAt[i] >= 0 => scenario.calls[i].count = countAt[i]

\* C3 as stated: the events at t=0,1 do not fire, the event at t=2 fires and
\* resets the count to 0, the event at t=3 does not fire, the event at t=8
\* fires.
C3_ScenarioAsClaimed ==
    ScenarioOutcome(<<FALSE, FALSE, TRUE, FALSE, TRUE>>, <<-1, -1, 0, -1, -1>>)
\* C3 amended: the events at t=0,1 do not fire, the event at t=2 fires and
\* resets the count to 0, the event at t=3 does not fire (count 1), and the
\* event at t=8 does not fire either: the count is then 2, below 3.
C3_ScenarioAsCoded ==
    ScenarioOutcome(<<FALSE, FALSE, TRUE, FALSE, FALSE>>, <<1, 2, 0, 1, 2>>)
\* all five events of the scenario have been fed
C3_Witness == InScenario /\ Len(scenario.calls) = 5

\* C4 as stated: detection_count never decreases across an operation except
\* in a call that fires an alert, where it becomes 0.
C4_CountDropsOnlyOnAlert ==
    detection_count < last.pre => AlertFired /\ detection_count = 0
\* C4 amended: detection_count never decreases across an operation except in
\* a call that fires an alert or in reset_detection_count, and it becomes 0
\* in both.
C4_CountDropsOnlyOnAlertOrReset ==
    detection_count < last.pre =>
        /\ AlertFired \/ last.op = "reset_detection_count"
        /\ detection_count = 0
\* reset_detection_count has lowered a positive count after an alert had fired
C4_Witness ==
    /\ last.op = "reset_detection_count"
    /\ last.pre > 0
    /\ detection_count = 0
    /\ last_alert_time # <<>>

\* C5 as stated: a call carrying k >= 1 detections raises the pending count by
\* exactly k before the threshold check.
C5_CountGrowsByK ==
    IsCall => last.afterInc = last.pre + last.k
\* C5 amended: a call carrying k >= 1 detections raises the pending count by
\* exactly 1 before the threshold check, whatever k is.
C5_CountGrowsByOne ==
    IsCall =>
        /\ last.afterInc = last.pre + 1
        /\ ~AlertFired => detection_count = last.pre + 1
\* an event of two detections arrived on a positive count
C5_Witness == IsCall /\ last.k = 2 /\ last.pre >= 1 /\ ~AlertFired

\* C6: a call that meets the threshold inside the cooldown fires nothing,
\* leaves last_alert_time and alert_history as they were and keeps the
\* incremented count, so the count always holds every event received since
\* the last alert or reset.
C6_SuppressedKeepsCount ==
    /\ Suppressed =>
           /\ last.ret = FALSE
           /\ last_alert_time = last.preLast
           /\ Len(alert_history) = last.preHist
           /\ detection_count = last.pre + 1
    /\ enabled => detection_count = received
\* two calls in a row were suppressed
C6_Witness == Suppressed /\ last.pre >= alert_threshold

\* C7: the record appended when an alert fires carries the count that
\* triggered it (the count before the reset, which is >= alert_threshold).
C7_RecordCarriesCount ==
    AlertFired =>
        /\ alert_history[Len(alert_history)].detection_count = last.afterInc
        /\ alert_history[Len(alert_history)].detection_count >= alert_threshold

\* C8: process_detection and reset_detection_count called from several
\* threads behave as some serial order of the calls: two consecutive alerts
\* are at least cooldown_period apart, and with no alert and no reset every
\* completed call has added one to detection_count.
C8_CallsAreAtomic ==
    /\ (last_alert_time # <<>> /\ prev_alert # <<>>) =>
           last_alert_time[1] - prev_alert[1] >= cooldown_period
    /\ (last_alert_time = <<>> /\ resets = 0
          /\ \A c \in Callers : c_pc[c] = "idle" /\ enabled) =>
           detection_count = ncalls

\* a file some worker holds: between the dedup test and the end of the poll
\* that fetched it, or in the detection worker's frames awaiting detect
InFlight(f) ==
    \E w \in Workers :
        \/ \E i \in 1..Len(frames[w]) : frames[w][i] = f
        \/ w_pc[w] = "read" /\ image_file[w] = f

\* C9: for each file path, Detector.detect is invoked at most once, however
\* the polls of the camera worker and the detection worker interleave.
C9_DetectAtMostOnce == \A f \in Files : detected[f] <= 1
\* a file the detection worker has detected is also in the frames the camera
\* worker's poll collected: both polls saw it as new
C9_Witness ==
    \E f \in Files :
        /\ detected[f] = 1
        /\ \E i \in 1..Len(frames["camera"]) : frames["camera"][i] = f

\* C10: a decodable image fetched from the capture folder is handed on to the
\* detection worker and not discarded because the camera worker polled it
\* first: every file marked processed has been passed to Detector.detect or
\* is still held by a worker.
C10_FetchedFramesReachDetector ==
    \A f \in processed_files : detected[f] >= 1 \/ InFlight(f)

(* --------------------- claims about the pipeline ----------------------- *)
\* C11: as long as Detector.detect has returned an empty list for every
\* frame, alert_history is empty, last_alert_time is None and
\* detection_count is 0, however many frames were processed.
C11_NoDetectionsNoAlerts ==
    nonempty = {} =>
        /\ alert_history = <<>>
        /\ last_alert_time = <<>>
        /\ detection_count = 0
\* every file went through Detector.detect of an enabled manager's pipeline
\* and none had a detection
C11_Witness ==
    /\ enabled
    /\ nonempty = {}
    /\ \A f \in Files : detected[f] >= 1

\* C12: for every frame the detection worker has processed, also one with
\* zero detections, a detection event was delivered to monitoring and to the
\* database.
C12_EveryFrameIsLogged ==
    \A f \in Files :
        detected[f] >= 1 => f \in detection_history /\ f \in db_detections

\* C14: the number of rows of the alerts table always equals the number of
\* alerts fired.
C14_AlertRowsMatchFires == db_alerts = Len(alert_history)

\* SystemManager.get_status, system_manager.py:322-329: running, the threads
\* alive, and of the components' statuses the camera's processed_files_count
\* (camera_manager.py:279)
SystemStatus ==
    [running |-> sm_running,
     threads |-> [w \in Workers |-> w_pc[w] # "exited"],
     processed_files_count |-> Cardinality(processed_files)]
\* the frames the ingestion worker fetched that the detection worker neither
\* got nor can get any more
DroppedFrames == {f \in processed_files : detected[f] = 0 /\ ~InFlight(f)}

\* C20: a frame the ingestion worker fetched and the detection worker never
\* consumes is counted by a dropped-frame counter in the coordinator status.
C20_DroppedFramesAreCounted ==
    DroppedFrames # {} =>
        /\ "dropped_frames" \in DOMAIN SystemStatus
        /\ SystemStatus.dropped_frames = Cardinality(DroppedFrames)

\* the names of the methods executed so far by the call being followed
ExecutedNames == [i \in 1..Len(executed) |-> executed[i].method]
\* the alert state is as line 122 of the call being followed left it
AlertStateKept == <<detection_count, last_alert_time, alert_history>> = m_snap

\* C13: when an alert fires every method of the configured list is executed
\* exactly once, in list order; a method that raises does not stop the later
\* ones and changes none of detection_count, last_alert_time and
\* alert_history, and process_detection returns True.
C13_EveryMethodRunsOnce ==
    /\ m_pc > 0 =>
           /\ m_pc <= Len(methods) + 1
           /\ ExecutedNames = SubSeq(methods, 1, m_pc - 1)
           /\ AlertStateKept
    /\ (m_pc = 0 /\ m_snap # <<>>) =>
           /\ m_ret = "True"
           /\ ExecutedNames = methods
           /\ AlertStateKept
\* a call that fired has returned after its first method raised and a later
\* one ran
C13_Witness ==
    /\ m_pc = 0
    /\ m_ret = "True"
    /\ Len(executed) >= 2
    /\ executed[1].raised

(* -------------------- claims about shutdown ---------------------------- *)
\* shutdown has been entered and has not returned
InShutdown == sd_pc \notin {"idle", "returned"}

\* C15: SystemManager.shutdown always returns, also when worker threads are
\* stuck: wherever its caller is, its next step can be taken (no wait on a
\* thread is unbounded), and the steps to the return are finitely many.
C15_ShutdownNeverWaitsForever == InShutdown => ENABLED ShutdownStep
\* shutdown has returned although a thread it joined is stuck in an external
\* call
C15_Witness ==
    /\ sd_pc = "returned"
    /\ \E t \in Joined : t_pc[t] = "blocked" /\ t \in sd_timeouts

\* C16: when shutdown returns while some thread has not ended within its
\* join, its result names exactly the threads that failed to stop.
C16_TimedOutWorkersAreReported ==
    sd_pc = "returned" => ShutdownReport(sd_timeouts) = sd_timeouts

\* no thread is stuck in an external call
NoneBlocked == \A t \in Threads : t_pc[t] # "blocked"
\* every thread that was started has ended
AllExited == \A t \in Threads : ~IsAlive(t)

\* C17: once shutdown has given its signals (it has returned), every thread
\* started by the coordinator or its components eventually ends, unless one
\* is held in an external call that does not return.
C17_WorkersEventuallyExit ==
    (sd_pc = "returned") ~> (AllExited \/ ~NoneBlocked)

\* C18: a worker whose body fails on N consecutive iterations is not retried
\* again: for N = MaxIterations - 1, the body of the prevention worker never
\* fails a further time.
C18_FailingWorkerIsRetired == prevention_failures < MaxIterations

(* --------------------- claims about startup ---------------------------- *)
\* the configuration the claim calls valid: both thresholds within [0, 1],
\* a positive detection interval and an alert threshold of at least 1
ClaimedValid(c) == DetectionSettingsValid(c) /\ c.alert_threshold >= 1

\* C19: worker threads are started only when the configuration read at
\* startup is valid, and then the pipeline runs on that configuration and
\* not on a substituted one.
C19_InvalidConfigStopsStartup ==
    started # {} =>
        /\ ClaimedValid(file_config)
        /\ config = file_config
        /\ alert_threshold = file_config.alert_threshold

InFrames(w, f) == \E i \in 1..Len(frames[w]) : frames[w][i] = f

\* C27: while SystemManager.running is true, an exception raised in an
\* iteration of the camera worker never terminates it: the worker is not
\* exited, and it polls again.
C27_CameraWorkerSurvivesErrors == sm_running => w_pc["camera"] # "exited"
\* the hand-off of a poll has raised (its frames are lost: fetched, never
\* detected, held by nobody) and the camera worker is in a later poll
C27_Witness ==
    /\ sm_running
    /\ DroppedFrames # {}
    /\ w_pc["camera"] = "scan"

\* C29: no file path is returned by get_frames more than once in total,
\* however the polls of the camera worker and the detection worker
\* interleave: a file in the frames of the camera worker's poll is neither in
\* the frames of the detection worker's poll nor already detected by it.
C29_FileReturnedOnce ==
    \A f \in Files :
        InFrames("camera", f) => ~InFrames("detection", f) /\ detected[f] = 0
\* C21: the detection worker never waits on the persistence sink: it is never
\* at the 'with self.lock' of database.log_detection while another thread
\* holds DatabaseManager.lock.
C21_DetectionNeverWaitsForLock ==
    ~(w_pc["detection"] = "lock" /\ db_lock # "free")

\* C22: SystemManager.get_status never blocks on worker internals: the thread
\* that serves a status request is never waiting for a lock that the detection
\* worker's write or another database operation holds.
C22_StatusNeverBlocks ==
    ~(lk_pc["status"] = "wait" /\ db_lock # "free")

\* C25: a failing write of database.log_detection is returned as False and
\* not raised: the worker goes on to broadcast the same event with the
\* remaining frames of the poll still to come, and from process_detection to
\* the broadcast the alert state stays what process_detection left.
C25_FailedWriteIsNotPropagated ==
    /\ \A f \in db_failed :
        \/ f \in broadcasts
        \/ w_pc["detection"] = "broadcast" /\ Head(frames["detection"]) = f
    /\ w_pc["detection"] \in {"lock", "store", "broadcast"} =>
        AlertState = fan_snap
\* the write of the first frame of a poll of two has failed, its event was
\* broadcast all the same, and the second frame has been detected
C25_Witness ==
    \E f, g \in Files :
        /\ f # g
        /\ f \in db_failed /\ f \in broadcasts
        /\ detected[g] = 1
        /\ fan_snap # <<0, <<>>, <<>> >>

\* C26: system_stats['error_count'] equals the number of Detector.detect
\* calls that have failed so far.
C26_ErrorCountCountsDetectFailures == error_count = detect_failures

\* C30: an error while fanning out one frame affects only that frame: every
\* other frame the same poll returned is passed to Detector.detect or is
\* still ahead of the worker in the frames of the poll.
C30_OtherFramesOfThePollSurvive ==
    \A f \in processed_files : detected[f] >= 1 \/ InFrames("detection", f)
\* C23: after every health evaluation, health_status is 'warning' if and only
\* if the last sampled cpu_usage > 80 or memory_usage > 85 or disk_usage > 90,
\* a value exactly at its threshold being healthy, and 'healthy' otherwise;
\* log_detection and log_error do not change it.
C23_HealthFollowsTheSample ==
    mw_pc \in {"cleanup", "assign", "sleep"} =>
        /\ health_status \in {"warning", "healthy"}
        /\ health_status = "warning" <=>
               \/ system_stats.cpu_usage > 80
               \/ system_stats.memory_usage > 85
               \/ system_stats.disk_usage > 90
\* a sample with every value exactly at its threshold was evaluated as
\* healthy, and detections and errors were logged since
C23_Witness ==
    /\ mw_pc = "sleep"
    /\ system_stats.cpu_usage = 80
    /\ system_stats.memory_usage = 85
    /\ system_stats.disk_usage = 90
    /\ health_status = "healthy"
    /\ error_count > 0
    /\ detection_history # {}

\* C24: a sample in which a read of CPU, memory or disk fails leaves
\* cpu_usage, memory_usage, disk_usage and uptime as they were, and the
\* monitoring worker goes on to its health check.
C24_FailedSampleKeepsStats ==
    [][(mw_pc = "update" /\ mw_pc' # "update" /\ sample_failed') =>
          /\ system_stats' = system_stats
          /\ mw_pc' = "check"]_vars
\* a sample failed after an earlier one had succeeded at a later time than
\* the start, its values are the ones kept, and the worker has gone on
C24_Witness ==
    /\ sample_failed
    /\ system_stats.uptime > 0
    /\ system_stats.cpu_usage > 0
    /\ mw_pc = "sleep"
\* two calls of cleanup_old_data in a row, with the same retention and both
\* completed without a database error
SameRetention(i) ==
    /\ cleanup_ret[i].days = cleanup_ret[i - 1].days
    /\ cleanup_ret[i].ok /\ cleanup_ret[i - 1].ok
\* the second call of the two left the tables as the first did and returned 0
SecondRunIsNoOp(i) ==
    /\ cleanup_ret[i].after = cleanup_ret[i - 1].after
    /\ cleanup_ret[i].deleted = 0

C39_HistoryRespectsLimit ==
    last.op = "get_alert_history" =>
        /\ Len(last.ret) <= last.k
        /\ \A i \in 1..Len(last.ret) :
               last.ret[i] = alert_history[Len(alert_history) - Len(last.ret) + i]
\* C32: a detection event the detection worker persisted (its timestamp the
\* float of time.time()) less than days ago is kept by cleanup_old_data(days)
\* and returned by get_detections(limit, days).
C32_YoungDetectionsAreKept ==
    \A days \in 0..MaxDays :
        \A row \in tables["detections"] :
            row.form = "epoch" /\ row.t > now - days =>
                /\ row \in AfterCleanup(tables, now - days)["detections"]
                /\ row \in GetDetections(tables, now - days)
\* C31: on every health pass of the main loop each component is evaluated,
\* each result carries 'healthy' and 'message', and a failure at one
\* component does not skip the others: when the pass is over, every component
\* has been evaluated.
C31_HealthPassCoversAllComponents ==
    /\ \A c \in health_checked : {"healthy", "message"} \subseteq HealthKeys(c)
    /\ ml_pc = "status" =>
        health_checked = {ComponentOrder[i] : i \in 1..Len(ComponentOrder)}

\* C33: each completed iteration of the main loop has appended a
\* performance-metrics record to the database.
C33_MetricsArePersisted ==
    ml_iterations > 0 => tables["performance_metrics"] # {}
\* the components' shutdown() calls of SystemManager.shutdown have completed
\* for database, camera, detector and prevention
ComponentsDown == sd_pc \notin {"idle", "components"}

\* C34: during SystemManager.shutdown the workers are stopped before the
\* components they use are torn down: once the database, the camera and the
\* detector are shut down, no camera or detection worker is in a loop body,
\* where it calls get_frames, detect and the database write.
C34_WorkersStopBeforeComponents ==
    ComponentsDown =>
        t_pc["camera"] # "body" /\ t_pc["detection"] # "body"

\* C38: once MonitoringManager.shutdown has been called, the running flag of
\* the monitoring worker stays False and the worker starts no further
\* sampling iteration.
C38_MonitoringStaysStopped ==
    sd_pc \notin {"idle", "components", "monitoring"} => ~mon_running
\* C36: the uses of the shared connection exclude each other, and the
\* connection is never closed while a thread is inside a database operation,
\* that is, while DatabaseManager.lock is held.
C36_ConnectionClosedOnlyWhenUnused ==
    [][(db_open /\ ~db_open') => db_lock = "free"]_vars
\* C35: at any time at most one camera worker, one detection worker and one
\* prevention worker thread are alive, whatever the sequence of run() and
\* shutdown() calls.
C35_OneWorkerOfEachKind == \A k \in WorkerKinds : live[k] <= 1
\* C37: no detection record is lost to a race between log_detection and
\* _cleanup_old_data: a record of detection_history within the retention
\* window, as every record here is, is still in it after any step.
C37_NoRecordLost ==
    [][detection_history \subseteq detection_history']_vars
====
